---------------------------- MODULE Spec2Model ----------------------------
(***************************************************************************)
(* The album data-access layer (internal/data/albums.go): AlbumModel's     *)
(* Insert, Get, Update, Delete and GetAll issued by concurrent callers     *)
(* against one albums table.  Every operation is one SQL statement; the    *)
(* store executes a statement atomically.  A call is modelled in two       *)
(* steps: the call (the arguments are bound from the caller's Album and    *)
(* the statement is sent) and the query (the store executes the statement  *)
(* and the result is scanned back into the caller).                        *)
(*                                                                         *)
(* Specifications: Spec (the store answers every statement), SpecFault     *)
(* (statements may fail, time out, or commit and time out), SpecRace (two  *)
(* Updates of one fetched row), SpecRetry (re-fetch and retry after an     *)
(* edit conflict), SpecTwoRows (two stored rows) and SpecValidate          *)
(* (ValidateAlbum over a grid of field values).                            *)
(***************************************************************************)
EXTENDS Integers, Sequences, FiniteSets, TLC

\* ------------------------------------------------------------------ bounds
MaxRows    == 1     \* rows ever inserted (values drawn from the id sequence)
MaxVersion == 3     \* highest version a row is driven to

\* Two concurrent callers.  Every statement is atomic in the store, so the
\* interleavings that matter are those of one caller's statements with
\* another's.
Callers == {"c1", "c2"}

\* ------------------------------------------------------------ input values
\* The caller-supplied fields of an Album.  The two values differ in every
\* field, so a write that applies only some of the fields is visible.
Contents ==
    { [Title |-> "a", Year |-> 1999, Runtime |-> 40, Genres |-> <<"rock">>],
      [Title |-> "b", Year |-> 2005, Runtime |-> 55, Genres |-> <<"jazz", "rock">>] }

\* ids a caller may pass: two invalid ones (Get(0), Get(-5)) and the ids of
\* the sequence, inserted or not.
InvalidIds == {-5, 0}
IdInputs   == InvalidIds \cup (1..MaxRows)

\* ------------------------------------------------------------------ errors
NoError           == "nil"
ErrRecordNotFound == "ErrRecordNotFound"
ErrEditConflict   == "ErrEditConflict"
ErrNoRows         == "sql.ErrNoRows"
ErrStorage        == "storage failure"
ErrTimeout        == "context deadline exceeded"

\* How the store answers a statement: it executes it and answers ("ok");
\* it fails without executing it ("error"); the 3 second deadline of the
\* call's context passes before it executes it ("timeout"); or it executes
\* it and the deadline passes before the answer arrives ("late").
Outcomes  == {"ok", "error", "timeout", "late"}
Reliable  == {"ok"}
Executed(o)   == o \in {"ok", "late"}
DriverError(o) == IF o = "error" THEN ErrStorage ELSE ErrTimeout

\* ------------------------------------------------------------------- Album
\* type Album: the zero value, and a *Album as a sequence of length 0 (nil)
\* or 1.
ZeroAlbum ==
    [ID |-> 0, CreatedAt |-> 0, Title |-> "", Year |-> 0, Runtime |-> 0,
     Genres |-> <<>>, Version |-> 0]
Nil      == <<>>
Ptr(a)   == <<a>>
IsNil(x) == x = <<>>

NewAlbum(c) ==
    [ZeroAlbum EXCEPT !.Title = c.Title, !.Year = c.Year,
                      !.Runtime = c.Runtime, !.Genres = c.Genres]

WithContent(a, c) ==
    [a EXCEPT !.Title = c.Title, !.Year = c.Year,
              !.Runtime = c.Runtime, !.Genres = c.Genres]

ContentOf(a) ==
    [Title |-> a.Title, Year |-> a.Year, Runtime |-> a.Runtime, Genres |-> a.Genres]

\* ------------------------------------------------------------------- state
VARIABLES
    db,        \* the albums table: id -> row
    nextId,    \* the next value of the id sequence
    now,       \* the store's clock (created_at of the next insert)
    pc,        \* per caller: "idle" or "inflight" (statement sent, no answer yet)
    op,        \* per caller: the operation last called
    args,      \* per caller: the statement's bound arguments
    filters,   \* per caller: the Filters of the last GetAll
    album,     \* per caller: the *Album passed in, or the one Get returned
    albums,    \* per caller: the []*Album GetAll returned
    metadata,  \* per caller: the Metadata GetAll returned
    err,       \* per caller: the error the last operation returned
    errors,    \* per caller: the Errors map of the validator it last used
    updates    \* history: per stored row, the Updates committed on it

vars == <<db, nextId, now, pc, op, args, filters, album, albums, metadata, err,
          errors, updates>>

ZeroMetadata ==
    [CurrentPage |-> 0, PageSize |-> 0, FirstPage |-> 0, LastPage |-> 0,
     TotalRecords |-> 0]
ZeroFilters == [Page |-> 0, PageSize |-> 0, Sort |-> ""]

\* Mutant: the version column is not scanned (Album.Version stays zero).
RowAlbumNoVersion(i, r) ==
    [ID |-> i, CreatedAt |-> r.created_at, Title |-> r.title, Year |-> r.year,
     Runtime |-> r.runtime, Genres |-> r.genres, Version |-> 0]

\* A row of the table as the Album a SELECT of all seven columns scans.
RowAlbum(i, r) ==
    [ID |-> i, CreatedAt |-> r.created_at, Title |-> r.title, Year |-> r.year,
     Runtime |-> r.runtime, Genres |-> r.genres, Version |-> r.version]

Init ==
    /\ db = << >>
    /\ nextId = 1
    /\ now = 1
    /\ pc = [p \in Callers |-> "idle"]
    /\ op = [p \in Callers |-> "none"]
    /\ args = [p \in Callers |-> << >>]
    /\ filters = [p \in Callers |-> ZeroFilters]
    /\ album = [p \in Callers |-> Nil]
    /\ albums = [p \in Callers |-> Nil]
    /\ metadata = [p \in Callers |-> ZeroMetadata]
    /\ err = [p \in Callers |-> NoError]
    /\ errors = [p \in Callers |-> << >>]
    /\ updates = << >>

Idle(p) == pc[p] = "idle"

\* A call other than GetAll: the caller holds no Filters, list or Metadata.
NoList(p) ==
    /\ filters' = [filters EXCEPT ![p] = ZeroFilters]
    /\ albums' = [albums EXCEPT ![p] = Nil]
    /\ metadata' = [metadata EXCEPT ![p] = ZeroMetadata]

\* ------------------------------------------------------------------ Insert
\* The store's defaults for the columns the INSERT does not name.
InitialVersion == 1

InsertRow(a) ==
    [created_at |-> now, title |-> a[1], year |-> a[2], runtime |-> a[3],
     genres |-> a[4], version |-> InitialVersion]

\* Mutant: the returned version is not scanned into album.Version.
InsertScanNoVersion(a, i, r) ==
    [a EXCEPT !.ID = i, !.CreatedAt = r.created_at]

\* Scan(&album.ID, &album.CreatedAt, &album.Version) of the RETURNING row.
InsertScan(a, i, r) ==
    [a EXCEPT !.ID = i, !.CreatedAt = r.created_at, !.Version = r.version]

\* The id sequence is capped at MaxRows: a call is made only while the
\* sequence, after the inserts already in flight, has a value left.
InsertsInFlight == {q \in Callers : pc[q] = "inflight" /\ op[q] = "Insert"}

InsertCall(p, c) ==
    /\ Idle(p)
    /\ nextId + Cardinality(InsertsInFlight) <= MaxRows
    /\ pc' = [pc EXCEPT ![p] = "inflight"]
    /\ op' = [op EXCEPT ![p] = "Insert"]
    /\ album' = [album EXCEPT ![p] = Ptr(NewAlbum(c))]
    /\ args' = [args EXCEPT ![p] = <<c.Title, c.Year, c.Runtime, c.Genres>>]
    /\ err' = [err EXCEPT ![p] = NoError]
    /\ NoList(p)
    /\ UNCHANGED <<db, nextId, now, errors, updates>>

InsertQuery(p, o) ==
    /\ pc[p] = "inflight" /\ op[p] = "Insert"
    /\ pc' = [pc EXCEPT ![p] = "idle"]
    /\ IF Executed(o)
         THEN /\ db' = (nextId :> InsertRow(args[p])) @@ db
              /\ nextId' = nextId + 1
              /\ now' = now + 1
              /\ updates' = (nextId :> 0) @@ updates
         ELSE UNCHANGED <<db, nextId, now, updates>>
    /\ IF o = "ok"
         THEN /\ album' = [album EXCEPT ![p] =
                             Ptr(InsertScan(album[p][1], nextId, InsertRow(args[p])))]
              /\ err' = [err EXCEPT ![p] = NoError]
         ELSE /\ err' = [err EXCEPT ![p] = DriverError(o)]
              /\ UNCHANGED album
    /\ UNCHANGED <<op, args, filters, albums, metadata, errors>>

\* --------------------------------------------------------------------- Get
\* SELECT ... FROM albums WHERE id = $1: the matching rows.
SelectById(table, i) == {j \in DOMAIN table : j = i}

\* QueryRowContext(...).Scan: ErrNoRows when the statement returns no row.
GetScan(table, i) ==
    IF SelectById(table, i) = {}
      THEN [album |-> Nil, err |-> ErrNoRows]
      ELSE [album |-> Ptr(RowAlbum(i, table[i])), err |-> NoError]

\* Mutant: ErrNoRows is returned unmapped.
GetResultUnmapped(r) ==
    IF r.err # NoError
      THEN [album |-> Nil, err |-> r.err]
      ELSE [album |-> r.album, err |-> NoError]

\* Mutant: every error of the query is reported as ErrRecordNotFound.
GetResultAllNotFound(r) ==
    IF r.err # NoError
      THEN [album |-> Nil, err |-> ErrRecordNotFound]
      ELSE [album |-> r.album, err |-> NoError]

\* The error mapping of Get: ErrNoRows becomes ErrRecordNotFound, any other
\* error is returned as it is; the album is nil on every error.
GetResult(r) ==
    IF r.err # NoError
      THEN [album |-> Nil,
            err |-> IF r.err = ErrNoRows THEN ErrRecordNotFound ELSE r.err]
      ELSE [album |-> r.album, err |-> NoError]

GetCall(p, i) ==
    /\ Idle(p)
    /\ op' = [op EXCEPT ![p] = "Get"]
    /\ args' = [args EXCEPT ![p] = <<i>>]
    /\ IF i < 1
         THEN /\ album' = [album EXCEPT ![p] = Nil]
              /\ err' = [err EXCEPT ![p] = ErrRecordNotFound]
              /\ UNCHANGED pc
         ELSE /\ pc' = [pc EXCEPT ![p] = "inflight"]
              /\ album' = [album EXCEPT ![p] = Nil]
              /\ err' = [err EXCEPT ![p] = NoError]
    /\ NoList(p)
    /\ UNCHANGED <<db, nextId, now, errors, updates>>

GetQuery(p, o) ==
    /\ pc[p] = "inflight" /\ op[p] = "Get"
    /\ pc' = [pc EXCEPT ![p] = "idle"]
    /\ LET scanned == IF o = "ok" THEN GetScan(db, args[p][1])
                                  ELSE [album |-> Nil, err |-> DriverError(o)]
           res == GetResult(scanned)
       IN /\ album' = [album EXCEPT ![p] = res.album]
          /\ err' = [err EXCEPT ![p] = res.err]
    /\ UNCHANGED <<db, nextId, now, op, args, filters, albums, metadata,
                   errors, updates>>

\* ------------------------------------------------------------------ Update
\* Mutants of the WHERE clause: no version check; a stale version accepted.
UpdateMatchAnyVersion(table, a) ==
    {j \in DOMAIN table : j = a[5]}
UpdateMatchStale(table, a) ==
    {j \in DOMAIN table : j = a[5] /\ table[j].version >= a[6]}

\* Mutant: the WHERE clause has no id (WHERE version = $6).
UpdateMatchAnyId(table, a) ==
    {j \in DOMAIN table : table[j].version = a[6]}

\* UPDATE albums SET ... WHERE id = $5 AND version = $6: the matching rows.
UpdateMatch(table, a) ==
    {j \in DOMAIN table : j = a[5] /\ table[j].version = a[6]}

\* Mutant: the statement does not advance the version.
UpdateRowNoBump(r, a) ==
    [r EXCEPT !.title = a[1], !.year = a[2], !.runtime = a[3], !.genres = a[4]]

\* Mutant: the statement sets the title and the version only.
UpdateRowTitleOnly(r, a) ==
    [r EXCEPT !.title = a[1], !.version = r.version + 1]

\* SET title = $1, year = $2, runtime = $3, genres = $4, version = version + 1
UpdateRow(r, a) ==
    [r EXCEPT !.title = a[1], !.year = a[2], !.runtime = a[3], !.genres = a[4],
              !.version = r.version + 1]

UpdateTable(table, a) ==
    [j \in DOMAIN table |->
        IF j \in UpdateMatch(table, a) THEN UpdateRow(table[j], a) ELSE table[j]]

\* Mutant: the returned version is not scanned into album.Version.
UpdateScanKeep(table, a, v) ==
    IF UpdateMatch(table, a) = {}
      THEN [version |-> v, err |-> ErrNoRows]
      ELSE [version |-> v, err |-> NoError]

\* QueryRowContext(...).Scan(&album.Version) of the RETURNING row: the new
\* version, or ErrNoRows (album.Version untouched) when no row was updated.
UpdateScan(table, a, v) ==
    IF UpdateMatch(table, a) = {}
      THEN [version |-> v, err |-> ErrNoRows]
      ELSE [version |-> UpdateTable(table, a)[a[5]].version, err |-> NoError]

\* Mutant: the mapping of Get, ErrNoRows to ErrRecordNotFound.
UpdateResultNotFound(e) ==
    IF e # NoError
      THEN IF e = ErrNoRows THEN ErrRecordNotFound ELSE e
      ELSE NoError

\* Mutant: every error of the query is reported as ErrEditConflict.
UpdateResultAllConflict(e) ==
    IF e # NoError THEN ErrEditConflict ELSE NoError

\* The error mapping of Update: ErrNoRows becomes ErrEditConflict, any other
\* error is returned as it is.
UpdateResult(e) ==
    IF e # NoError
      THEN IF e = ErrNoRows THEN ErrEditConflict ELSE e
      ELSE NoError

\* The albums a caller passes to Update: the one it holds (from Insert, Get
\* or an earlier Update) with new field values, or a new one it never
\* inserted (ID and Version zero).
UpdateInputs(p) ==
    (IF IsNil(album[p]) THEN {} ELSE {WithContent(album[p][1], c) : c \in Contents})
    \cup {NewAlbum(c) : c \in Contents}

UpdateCall(p, a) ==
    /\ Idle(p)
    /\ pc' = [pc EXCEPT ![p] = "inflight"]
    /\ op' = [op EXCEPT ![p] = "Update"]
    /\ album' = [album EXCEPT ![p] = Ptr(a)]
    /\ args' = [args EXCEPT ![p] =
                  <<a.Title, a.Year, a.Runtime, a.Genres, a.ID, a.Version>>]
    /\ err' = [err EXCEPT ![p] = NoError]
    /\ NoList(p)
    /\ UNCHANGED <<db, nextId, now, errors, updates>>

UpdateQuery(p, o) ==
    /\ pc[p] = "inflight" /\ op[p] = "Update"
    \* versions are capped at MaxVersion
    /\ Executed(o) => \A j \in UpdateMatch(db, args[p]) : db[j].version < MaxVersion
    /\ pc' = [pc EXCEPT ![p] = "idle"]
    /\ db' = IF Executed(o) THEN UpdateTable(db, args[p]) ELSE db
    /\ updates' = IF Executed(o)
                    THEN [j \in DOMAIN updates |->
                            IF j \in UpdateMatch(db, args[p]) THEN updates[j] + 1
                                                              ELSE updates[j]]
                    ELSE updates
    /\ LET scanned == IF o = "ok"
                        THEN UpdateScan(db, args[p], album[p][1].Version)
                        ELSE [version |-> album[p][1].Version, err |-> DriverError(o)]
       IN /\ album' = [album EXCEPT ![p] =
                         Ptr([album[p][1] EXCEPT !.Version = scanned.version])]
          /\ err' = [err EXCEPT ![p] = UpdateResult(scanned.err)]
    /\ UNCHANGED <<nextId, now, op, args, filters, albums, metadata, errors>>

\* ------------------------------------------------------------------ Delete
\* DELETE FROM albums WHERE id = $1: the matching rows.
DeleteMatch(table, i) == {j \in DOMAIN table : j = i}

\* Mutant: the row is kept (a soft delete).
DeleteTableKeep(table, i) == table

DeleteTable(table, i) ==
    [j \in DOMAIN table \ DeleteMatch(table, i) |-> table[j]]

\* Mutant: the mapping of Update, zero rows to ErrEditConflict.
DeleteResultConflict(rowsAffected) ==
    IF rowsAffected = 0 THEN ErrEditConflict ELSE NoError

\* result.RowsAffected() and the mapping of zero rows to ErrRecordNotFound.
\* (The driver's result carries the count; its RowsAffected returns no error.)
DeleteResult(rowsAffected) ==
    IF rowsAffected = 0 THEN ErrRecordNotFound ELSE NoError

DeleteCall(p, i) ==
    /\ Idle(p)
    /\ op' = [op EXCEPT ![p] = "Delete"]
    /\ args' = [args EXCEPT ![p] = <<i>>]
    /\ IF i < 1
         THEN /\ err' = [err EXCEPT ![p] = ErrRecordNotFound]
              /\ UNCHANGED pc
         ELSE /\ pc' = [pc EXCEPT ![p] = "inflight"]
              /\ err' = [err EXCEPT ![p] = NoError]
    \* Delete takes an id: the caller holds no Album during the call
    /\ album' = [album EXCEPT ![p] = Nil]
    /\ NoList(p)
    /\ UNCHANGED <<db, nextId, now, errors, updates>>

DeleteExec(p, o) ==
    /\ pc[p] = "inflight" /\ op[p] = "Delete"
    /\ pc' = [pc EXCEPT ![p] = "idle"]
    /\ db' = IF Executed(o) THEN DeleteTable(db, args[p][1]) ELSE db
    /\ updates' = [j \in DOMAIN db' |-> updates[j]]
    /\ err' = [err EXCEPT ![p] =
                 IF o = "ok"
                   THEN DeleteResult(Cardinality(DeleteMatch(db, args[p][1])))
                   ELSE DriverError(o)]
    /\ UNCHANGED <<nextId, now, op, args, filters, album, albums, metadata, errors>>

\* ------------------------------------------------------------------ GetAll
\* Filters and its methods (sortColumn, sortDirection, limit, offset) and
\* calculateMetadata belong to the same package; GetAll calls them.
SortSafelist == {"id", "title", "year", "runtime", "-id", "-title", "-year", "-runtime"}
Descending   == {"-id", "-title", "-year", "-runtime"}

\* The sort value without its "-" prefix.
sortColumn(f) ==
    CASE f.Sort \in {"id", "-id"}           -> "id"
      [] f.Sort \in {"title", "-title"}     -> "title"
      [] f.Sort \in {"year", "-year"}       -> "year"
      [] f.Sort \in {"runtime", "-runtime"} -> "runtime"
sortDirection(f) == IF f.Sort \in Descending THEN "DESC" ELSE "ASC"
limit(f)         == f.PageSize
offset(f)        == (f.Page - 1) * f.PageSize

calculateMetadata(totalRecords, page, pageSize) ==
    IF totalRecords = 0
      THEN ZeroMetadata
      ELSE [CurrentPage |-> page, PageSize |-> pageSize, FirstPage |-> 1,
            LastPage |-> (totalRecords + pageSize - 1) \div pageSize,
            TotalRecords |-> totalRecords]

\* The Filters and title/genres filters the callers pass.
FilterInputs ==
    { [Page |-> 1, PageSize |-> 1, Sort |-> "id"],
      [Page |-> 2, PageSize |-> 1, Sort |-> "-year"] }
TitleInputs  == {"", "a"}
GenreInputs  == {<< >>}

\* The names the statement of GetAll uses, and the ones the store knows: the
\* columns of albums (as the statements of Get name them) and the functions
\* of the store's text search.  The statement calls to_tvselector, which is
\* no function of the store, and names plainto_tsquery without arguments,
\* which makes it a column reference.
TableColumns == {"id", "created_at", "title", "year", "runtime", "genres", "version"}
StoreFunctions == {"count", "to_tsvector", "plainto_tsquery"}
ListColumns(col) ==
    {"id", "created_at", "title", "year", "runtime", "genres", "version",
     "plainto_tsquery", col}
ListFunctions == {"count", "to_tvselector"}

\* The store prepares a statement only if every name in it resolves.
ListStatementValid(col) ==
    /\ ListColumns(col) \subseteq TableColumns
    /\ ListFunctions \subseteq StoreFunctions

ErrUndefined == "pq: undefined function or column"

\* WHERE (<title matches $1> OR $1 = '') AND (genres @> $2 OR $2 = '{}')
Range(s) == {s[k] : k \in DOMAIN s}
TitleMatches(title, q)  == q = "" \/ title = q
GenresMatch(genres, q)  == Range(q) \subseteq Range(genres) \/ q = << >>
ListMatch(table, a) ==
    {j \in DOMAIN table :
        TitleMatches(table[j].title, a[1]) /\ GenresMatch(table[j].genres, a[2])}

\* ORDER BY <column> <direction>, id ASC.  Titles are ordered as the store's
\* collation orders the model's titles.
TitleOrder == <<"", "a", "b">>
SortKey(table, j, col) ==
    CASE col = "id"      -> j
      [] col = "title"   -> CHOOSE k \in DOMAIN TitleOrder : TitleOrder[k] = table[j].title
      [] col = "year"    -> table[j].year
      [] col = "runtime" -> table[j].runtime

Before(table, i, j, col, dir) ==
    LET ki == SortKey(table, i, col)
        kj == SortKey(table, j, col)
    IN \/ (dir = "ASC" /\ ki < kj)
       \/ (dir = "DESC" /\ ki > kj)
       \/ (ki = kj /\ i < j)

\* The position of row j among the matching rows, from 1.
Position(table, m, j, col, dir) ==
    1 + Cardinality({i \in m : Before(table, i, j, col, dir)})

\* LIMIT $3 OFFSET $4: the ids of the page, in order.
ListPage(table, a, col, dir) ==
    LET m == ListMatch(table, a)
        n == Cardinality(m)
        first == a[4] + 1
        last  == IF a[4] + a[3] < n THEN a[4] + a[3] ELSE n
    IN [k \in 1..(IF last >= first THEN last - first + 1 ELSE 0) |->
          CHOOSE j \in m : Position(table, m, j, col, dir) = first + k - 1]

\* The rows.Next() loop: every row carries count(*) OVER() of the matching
\* rows, scanned into totalRecords, which stays 0 when no row is returned.
ListScan(table, a, col, dir) ==
    LET ids == ListPage(table, a, col, dir)
    IN [albums |-> Ptr([k \in DOMAIN ids |-> RowAlbum(ids[k], table[ids[k]])]),
        totalRecords |-> IF Len(ids) = 0 THEN 0
                                         ELSE Cardinality(ListMatch(table, a))]

\* What GetAll returns for the store's answer.
GetAllResult(table, a, f, o) ==
    IF o # "ok"
      THEN [albums |-> Nil, metadata |-> ZeroMetadata, err |-> DriverError(o)]
    ELSE IF ~ListStatementValid(sortColumn(f))
      THEN [albums |-> Nil, metadata |-> ZeroMetadata, err |-> ErrUndefined]
    ELSE LET r == ListScan(table, a, sortColumn(f), sortDirection(f))
         IN [albums |-> r.albums,
             metadata |-> calculateMetadata(r.totalRecords, f.Page, f.PageSize),
             err |-> NoError]

GetAllCall(p, title, genres, f) ==
    /\ Idle(p)
    /\ f.Sort \in SortSafelist
    /\ pc' = [pc EXCEPT ![p] = "inflight"]
    /\ op' = [op EXCEPT ![p] = "GetAll"]
    /\ filters' = [filters EXCEPT ![p] = f]
    /\ args' = [args EXCEPT ![p] = <<title, genres, limit(f), offset(f)>>]
    /\ album' = [album EXCEPT ![p] = Nil]
    /\ albums' = [albums EXCEPT ![p] = Nil]
    /\ metadata' = [metadata EXCEPT ![p] = ZeroMetadata]
    /\ err' = [err EXCEPT ![p] = NoError]
    /\ UNCHANGED <<db, nextId, now, errors, updates>>

GetAllQuery(p, o) ==
    /\ pc[p] = "inflight" /\ op[p] = "GetAll"
    /\ pc' = [pc EXCEPT ![p] = "idle"]
    /\ LET res == GetAllResult(db, args[p], filters[p], o)
       IN /\ albums' = [albums EXCEPT ![p] = res.albums]
          /\ metadata' = [metadata EXCEPT ![p] = res.metadata]
          /\ err' = [err EXCEPT ![p] = res.err]
    /\ UNCHANGED <<db, nextId, now, op, args, filters, album, errors, updates>>

\* The callers' operations, with a store that answers every statement.
Next ==
    \/ \E p \in Callers, c \in Contents : InsertCall(p, c)
    \/ \E p \in Callers, o \in Reliable : InsertQuery(p, o)
    \/ \E p \in Callers, i \in IdInputs : GetCall(p, i)
    \/ \E p \in Callers, o \in Reliable : GetQuery(p, o)
    \/ \E p \in Callers : \E a \in UpdateInputs(p) : UpdateCall(p, a)
    \/ \E p \in Callers, o \in Reliable : UpdateQuery(p, o)
    \/ \E p \in Callers, i \in IdInputs : DeleteCall(p, i)
    \/ \E p \in Callers, o \in Reliable : DeleteExec(p, o)
    \/ \E p \in Callers, t \in TitleInputs, g \in GenreInputs, f \in FilterInputs :
          GetAllCall(p, t, g, f)
    \/ \E p \in Callers, o \in Reliable : GetAllQuery(p, o)

Spec == Init /\ [][Next]_vars

\* ---------------------------------------------------------- the update race
\* A row is stored at some version; each caller fetches it once with Get and
\* then calls Update once with the fetched Album and field values of its
\* choice, in any interleaving.
InitRace ==
    \E c \in Contents, v \in 1..(MaxVersion - 1) :
        /\ db = (1 :> [created_at |-> 1, title |-> c.Title, year |-> c.Year,
                       runtime |-> c.Runtime, genres |-> c.Genres, version |-> v])
        /\ nextId = 2
        /\ now = 2
        /\ pc = [p \in Callers |-> "idle"]
        /\ op = [p \in Callers |-> "none"]
        /\ args = [p \in Callers |-> << >>]
        /\ filters = [p \in Callers |-> ZeroFilters]
        /\ album = [p \in Callers |-> Nil]
        /\ albums = [p \in Callers |-> Nil]
        /\ metadata = [p \in Callers |-> ZeroMetadata]
        /\ err = [p \in Callers |-> NoError]
        /\ errors = [p \in Callers |-> << >>]
        /\ updates = (1 :> v - 1)

RaceGetCall(p) ==
    /\ op[p] = "none"
    /\ GetCall(p, 1)

RaceUpdateCall(p, c) ==
    /\ op[p] = "Get" /\ ~IsNil(album[p])
    /\ UpdateCall(p, WithContent(album[p][1], c))

NextRace ==
    \/ \E p \in Callers : RaceGetCall(p)
    \/ \E p \in Callers, o \in Reliable : GetQuery(p, o)
    \/ \E p \in Callers, c \in Contents : RaceUpdateCall(p, c)
    \/ \E p \in Callers, o \in Reliable : UpdateQuery(p, o)

SpecRace == InitRace /\ [][NextRace]_vars

\* ------------------------------------------------------------------ steps
\* The step in which the store answers caller p's statement.
Returns(p, o) == pc[p] = "inflight" /\ op[p] = o /\ pc'[p] = "idle"

\* A step of caller p that is a call.
Calls(p, o) ==
    /\ pc[p] = "idle"
    /\ op'[p] = o
    /\ <<pc[p], op[p], args[p], album[p], err[p]>> #
       <<pc'[p], op'[p], args'[p], album'[p], err'[p]>>

\* ------------------------------------------------------------------ claims
\* C1: two callers fetched the same album at the same version V and both
\* called Update with it: when both calls have returned, exactly one returned
\* nil, the other ErrEditConflict, and the stored version is V + 1.
C1_ExactlyOneUpdateWins ==
    (/\ \A p \in Callers : pc[p] = "idle" /\ op[p] = "Update"
     /\ \A p, q \in Callers : args[p][5] = args[q][5] /\ args[p][6] = args[q][6])
    => \E w \in Callers :
          /\ err[w] = NoError
          /\ \A l \in Callers \ {w} : err[l] = ErrEditConflict
          /\ db[args[w][5]].version = args[w][6] + 1

\* both fetched version 2; c2's Update won and c1's returned ErrEditConflict
C1_Witness ==
    /\ \A p \in Callers : pc[p] = "idle" /\ op[p] = "Update" /\ args[p][6] = 2
    /\ err["c1"] = ErrEditConflict
    /\ err["c2"] = NoError
    /\ db[1].version = 3

\* C2: a row that exists before and after a step changes only in the step in
\* which the store answers an Update called with that row's id and its stored
\* version, and then its version grows by one; an Update called with another
\* version leaves the row as it is.
C2_StaleUpdateChangesNothing ==
    [][/\ \A i \in DOMAIN db \cap DOMAIN db' :
            db'[i] # db[i] =>
                \E p \in Callers :
                    /\ Returns(p, "Update")
                    /\ args[p][5] = i
                    /\ args[p][6] = db[i].version
                    /\ db'[i].version = db[i].version + 1
       /\ \A p \in Callers, i \in DOMAIN db :
            (Returns(p, "Update") /\ args[p][5] = i /\ args[p][6] # db[i].version)
                => (i \in DOMAIN db' /\ db'[i] = db[i])]_vars

C2_Witness ==
    \E p \in Callers :
        /\ pc[p] = "idle" /\ op[p] = "Update" /\ err[p] = ErrEditConflict
        /\ args[p][5] \in DOMAIN db
        /\ db[args[p][5]].version = args[p][6] + 1
        /\ db[args[p][5]].title # args[p][1]

\* C3: an Update called with the id of a stored row and its stored version
\* returns nil, stores the album's title, year, runtime and genres, raises
\* the stored version by exactly one and writes the new version into
\* album.Version, so that the album again carries the stored version.
C3_MatchingUpdateSucceeds ==
    [][\A p \in Callers :
         (Returns(p, "Update") /\ UpdateMatch(db, args[p]) # {}) =>
            LET i == args[p][5]
                a == album'[p][1]
            IN /\ err'[p] = NoError
               /\ i \in DOMAIN db'
               /\ db'[i] = [created_at |-> db[i].created_at,
                            title |-> album[p][1].Title, year |-> album[p][1].Year,
                            runtime |-> album[p][1].Runtime,
                            genres |-> album[p][1].Genres,
                            version |-> db[i].version + 1]
               /\ a.Version = album[p][1].Version + 1
               /\ a = [album[p][1] EXCEPT !.Version = db'[i].version]
               /\ UpdateMatch(db', <<a.Title, a.Year, a.Runtime, a.Genres,
                                     a.ID, a.Version>>) = {i}]_vars

C3_Witness ==
    \E p \in Callers :
        /\ pc[p] = "idle" /\ op[p] = "Update" /\ err[p] = NoError
        /\ album[p][1].Version = 3
        /\ album[p][1].ID \in DOMAIN db
        /\ RowAlbum(album[p][1].ID, db[album[p][1].ID]) = album[p][1]

\* C4: an Update for which no row has both the album's id and the album's
\* version returns ErrEditConflict, leaves the store unchanged and leaves the
\* album, its Version included, as the caller passed it.
C4_NoMatchIsEditConflict ==
    [][\A p \in Callers :
         (Returns(p, "Update") /\ UpdateMatch(db, args[p]) = {}) =>
            /\ err'[p] = ErrEditConflict
            /\ db' = db
            /\ album'[p] = album[p]
            /\ album'[p][1].Version = args[p][6]]_vars

\* an Update of a deleted id has returned ErrEditConflict
C4_Witness ==
    \E p \in Callers :
        /\ pc[p] = "idle" /\ op[p] = "Update" /\ err[p] = ErrEditConflict
        /\ args[p][5] >= 1 /\ args[p][5] < nextId
        /\ args[p][5] \notin DOMAIN db
        /\ album[p][1].Version = args[p][6]

\* C5: Get with id < 1 returns (nil, ErrRecordNotFound) in the call itself,
\* no statement sent; Get with id >= 1 returns (nil, ErrRecordNotFound) when
\* no row has the id, and otherwise the Album of the stored row, all seven
\* fields.
C5_GetReturnsRowOrNotFound ==
    [][\A p \in Callers :
         /\ (op'[p] = "Get" /\ args'[p][1] < 1) =>
               (pc'[p] = "idle" /\ IsNil(album'[p]) /\ err'[p] = ErrRecordNotFound)
         /\ Returns(p, "Get") =>
               LET i == args[p][1]
               IN IF i \in DOMAIN db
                    THEN /\ err'[p] = NoError
                         /\ album'[p] =
                              <<[ID |-> i, CreatedAt |-> db[i].created_at,
                                 Title |-> db[i].title, Year |-> db[i].year,
                                 Runtime |-> db[i].runtime, Genres |-> db[i].genres,
                                 Version |-> db[i].version]>>
                    ELSE IsNil(album'[p]) /\ err'[p] = ErrRecordNotFound]_vars

C5_Witness ==
    \E p, q \in Callers :
        /\ pc[p] = "idle" /\ op[p] = "Get" /\ err[p] = NoError
        /\ album[p][1].Version = 2 /\ album[p][1].CreatedAt >= 1
        /\ pc[q] = "idle" /\ op[q] = "Get" /\ args[q][1] = -5
        /\ err[q] = ErrRecordNotFound

C7_DeleteIgnoresVersion ==
    [][\A p \in Callers :
         /\ (Returns(p, "Delete") /\ args[p][1] \in DOMAIN db) =>
               (err'[p] = NoError /\ args[p][1] \notin DOMAIN db')
         /\ op'[p] = "Delete" => err'[p] # ErrEditConflict]_vars

\* a row at version >= 2 was deleted while an Update of it was in flight
C7_Witness ==
    \E p, q \in Callers :
        /\ pc[p] = "idle" /\ op[p] = "Delete" /\ err[p] = NoError
        /\ pc[q] = "inflight" /\ op[q] = "Update"
        /\ args[q][5] = args[p][1] /\ args[q][6] >= 2
        /\ album[q][1].CreatedAt >= 1

\* C8: Insert returns nil with album.ID a new id, album.CreatedAt the store's
\* time and album.Version = 1, the caller's title, year, runtime and genres
\* untouched, and the row a Get of album.ID reads in the resulting store is
\* that album in all seven fields.
C8_InsertGetRoundTrip ==
    [][\A p \in Callers :
         Returns(p, "Insert") =>
            LET a == album'[p][1]
            IN /\ err'[p] = NoError
               /\ a.ID >= 1 /\ a.ID \notin DOMAIN db /\ a.ID = nextId
               /\ a.CreatedAt = now
               /\ a.Version = 1
               /\ ContentOf(a) = ContentOf(album[p][1])
               /\ GetResult(GetScan(db', a.ID)) = [album |-> <<a>>, err |-> NoError]]_vars

C8_Witness ==
    \E p \in Callers :
        /\ pc[p] = "idle" /\ op[p] = "Insert" /\ err[p] = NoError
        /\ album[p][1].ID = 1 /\ album[p][1].Version = 1
        /\ album[p][1].Title = "b"
        /\ db[1].title = "b" /\ db[1].genres = <<"jazz", "rock">>

\* C10: GetAll with N matching rows, page size S and page P returns the rows
\* at positions (P-1)*S+1 .. min(P*S, N) of the matching rows in sort order,
\* and Metadata.LastPage = ceil(N/S).
C10_PageAndLastPage ==
    [][\A p \in Callers :
         Returns(p, "GetAll") =>
            LET f == filters[p]
                col == sortColumn(f)
                dir == sortDirection(f)
                m == ListMatch(db, args[p])
                N == Cardinality(m)
                S == f.PageSize
                first == (f.Page - 1) * S + 1
                last == IF f.Page * S < N THEN f.Page * S ELSE N
                n == IF last >= first THEN last - first + 1 ELSE 0
            IN /\ ~IsNil(albums'[p])
               /\ Len(albums'[p][1]) = n
               /\ \A k \in 1..n :
                    \E j \in m :
                       /\ Position(db, m, j, col, dir) = first + k - 1
                       /\ albums'[p][1][k] = RowAlbum(j, db[j])
               /\ metadata'[p].LastPage = (N + S - 1) \div S]_vars

\* C11: a GetAll whose filters match no row (the empty table, the empty
\* title and genre filters included) returns a nil error, a non-nil empty
\* sequence and the zero Metadata (TotalRecords = 0), never ErrRecordNotFound.
C11_EmptyListIsNotAnError ==
    [][\A p \in Callers :
         (Returns(p, "GetAll") /\ ListMatch(db, args[p]) = {}) =>
            /\ err'[p] = NoError
            /\ ~IsNil(albums'[p])
            /\ albums'[p] = Ptr(<< >>)
            /\ metadata'[p] = ZeroMetadata]_vars

\* ------------------------------------------------------- the faulty store
\* The callers' operations with a store that may fail a statement, leave it
\* unanswered until the deadline of the call's context, or execute it and
\* answer too late.  A call with an id below 1 returns before any statement
\* is sent, and how the statement of GetAll fails does not depend on the
\* filters: the ids of the sequence and one GetAll input are drawn.
FaultIds    == 1..MaxRows
FaultFilter == [Page |-> 1, PageSize |-> 1, Sort |-> "id"]

NextFault ==
    \/ \E p \in Callers, c \in Contents : InsertCall(p, c)
    \/ \E p \in Callers, o \in Outcomes : InsertQuery(p, o)
    \/ \E p \in Callers, i \in FaultIds : GetCall(p, i)
    \/ \E p \in Callers, o \in Outcomes : GetQuery(p, o)
    \/ \E p \in Callers : \E a \in UpdateInputs(p) : UpdateCall(p, a)
    \/ \E p \in Callers, o \in Outcomes : UpdateQuery(p, o)
    \/ \E p \in Callers, i \in FaultIds : DeleteCall(p, i)
    \/ \E p \in Callers, o \in Outcomes : DeleteExec(p, o)
    \/ \E p \in Callers : GetAllCall(p, "", << >>, FaultFilter)
    \/ \E p \in Callers, o \in Outcomes : GetAllQuery(p, o)

\* The deadline of caller p's context (3 seconds after the call) passes
\* while its statement is unanswered: the driver returns the context's error.
DeadlineExceeded(p) ==
    \E o \in {"timeout", "late"} :
        \/ InsertQuery(p, o)
        \/ GetQuery(p, o)
        \/ UpdateQuery(p, o)
        \/ DeleteExec(p, o)
        \/ GetAllQuery(p, o)

\* The store need not ever answer; the timer of the context does fire.
SpecFault ==
    Init /\ [][NextFault]_vars /\ \A p \in Callers : WF_vars(DeadlineExceeded(p))

\* C12: every call of Insert, Get, Update, Delete or GetAll returns, also
\* when the store never answers: when the deadline of the call's context
\* passes, the call returns an error that is neither ErrRecordNotFound nor
\* ErrEditConflict.
C12_EveryCallReturns ==
    /\ \A p \in Callers : (pc[p] = "inflight") ~> (pc[p] = "idle")
    /\ [][\A p \in Callers :
            DeadlineExceeded(p) =>
               /\ pc'[p] = "idle"
               /\ err'[p] \notin {NoError, ErrRecordNotFound, ErrEditConflict}]_vars

C12_Witness ==
    /\ pc["c1"] = "idle" /\ op["c1"] = "Get" /\ args["c1"] = <<1>>
    /\ err["c1"] = ErrTimeout /\ IsNil(album["c1"])
    /\ 1 \in DOMAIN db
    /\ pc["c2"] = "idle" /\ op["c2"] = "Update" /\ err["c2"] = ErrTimeout

\* The step in which caller p's statement ends with outcome o.
Answered(p, o) ==
    \/ InsertQuery(p, o)
    \/ GetQuery(p, o)
    \/ UpdateQuery(p, o)
    \/ DeleteExec(p, o)
    \/ GetAllQuery(p, o)

\* C13: a storage failure other than 'no rows' (connection loss, statement
\* error, timeout) is returned to the caller as that same error: never as
\* ErrRecordNotFound or ErrEditConflict, never as nil; and the operation has
\* issued its statement at most once (the call returns in the step in which
\* the statement fails, and the table shows at most one execution of it).
C13_StorageFailurePassedThrough ==
    [][\A p \in Callers :
         (pc[p] = "inflight" /\ pc'[p] = "idle") =>
            /\ \A o \in Outcomes \ Reliable :
                  Answered(p, o) =>
                     /\ err'[p] = DriverError(o)
                     /\ err'[p] \notin {NoError, ErrRecordNotFound, ErrEditConflict}
                     /\ nextId' \in {nextId, nextId + 1}
                     /\ \A i \in DOMAIN db \cap DOMAIN db' :
                           db'[i].version \in {db[i].version, db[i].version + 1}
            /\ (op[p] = "GetAll" /\ err'[p] \notin {NoError, ErrStorage, ErrTimeout}) =>
                  /\ err'[p] = ErrUndefined
                  /\ db' = db]_vars

C13_Witness ==
    \E p \in Callers : \E q \in Callers \ {p} :
        /\ pc[p] = "idle" /\ op[p] = "Update" /\ err[p] = ErrStorage
        /\ 1 \in DOMAIN db
        /\ album[p][1].ID = 1 /\ album[p][1].Version = db[1].version
        /\ pc[q] = "idle" /\ op[q] = "GetAll" /\ err[q] = ErrUndefined

\* ------------------------------------------------- re-fetch and retry
\* Caller c1's Update has just returned ErrEditConflict: caller c2 had
\* advanced the version of row 1, or deleted row 1, or c1's Album was never
\* inserted (ID 0).  c1 then calls Get with the id of its Album and, if Get
\* returns the row, Update with the fetched Album and field values of its
\* choice; c2 only reads meanwhile.
Retrier == "c1"
Reader  == "c2"
Causes  == {"advanced", "deleted", "never inserted"}

StaleAlbum(c, v) ==
    [ID |-> 1, CreatedAt |-> 1, Title |-> c.Title, Year |-> c.Year,
     Runtime |-> c.Runtime, Genres |-> c.Genres, Version |-> v]

InitRetry ==
    \E c \in Contents, d \in Contents, v \in 1..(MaxVersion - 2), cause \in Causes :
        LET row == [created_at |-> 1, title |-> d.Title, year |-> d.Year,
                    runtime |-> d.Runtime, genres |-> d.Genres, version |-> v + 1]
            stale == IF cause = "never inserted" THEN NewAlbum(c)
                                                 ELSE StaleAlbum(c, v)
        IN /\ db = IF cause = "deleted" THEN << >> ELSE (1 :> row)
           /\ updates = IF cause = "deleted" THEN << >> ELSE (1 :> v)
           /\ nextId = 2
           /\ now = 2
           /\ pc = [p \in Callers |-> "idle"]
           /\ op = [p \in Callers |->
                      IF p = Reader /\ cause = "deleted" THEN "Delete" ELSE "Update"]
           /\ args = [p \in Callers |->
                        IF p = Retrier
                          THEN <<c.Title, c.Year, c.Runtime, c.Genres,
                                 stale.ID, stale.Version>>
                        ELSE IF cause = "deleted" THEN <<1>>
                        ELSE <<d.Title, d.Year, d.Runtime, d.Genres, 1, v>>]
           /\ album = [p \in Callers |->
                         IF p = Retrier THEN Ptr(stale)
                         ELSE IF cause = "deleted" THEN Nil
                         ELSE Ptr(RowAlbum(1, row))]
           /\ err = [p \in Callers |->
                       IF p = Retrier THEN ErrEditConflict ELSE NoError]
           /\ filters = [p \in Callers |-> ZeroFilters]
           /\ albums = [p \in Callers |-> Nil]
           /\ metadata = [p \in Callers |-> ZeroMetadata]
           /\ errors = [p \in Callers |-> << >>]

RefetchCall(p) ==
    /\ op[p] = "Update" /\ err[p] = ErrEditConflict
    /\ GetCall(p, album[p][1].ID)

RetryUpdateCall(p, c) ==
    /\ op[p] = "Get" /\ ~IsNil(album[p])
    /\ UpdateCall(p, WithContent(album[p][1], c))

NextRetry ==
    \/ RefetchCall(Retrier)
    \/ \E c \in Contents : RetryUpdateCall(Retrier, c)
    \/ \E i \in IdInputs : GetCall(Reader, i)
    \/ \E p \in Callers, o \in Reliable : GetQuery(p, o)
    \/ \E o \in Reliable : UpdateQuery(Retrier, o)
    \/ \E t \in TitleInputs, g \in GenreInputs, f \in FilterInputs :
          GetAllCall(Reader, t, g, f)
    \/ \E o \in Reliable : GetAllQuery(Reader, o)

SpecRetry == InitRetry /\ [][NextRetry]_vars

\* The step in which a Get of caller p returns: the store answers it, or the
\* id is below 1 and the call returns at once.
GetReturns(p) ==
    /\ op'[p] = "Get" /\ pc'[p] = "idle"
    /\ pc[p] = "inflight" \/ op[p] # "Get"

\* C14 (as stated): ErrEditConflict is always recoverable by re-fetch and
\* retry: after Update returned ErrEditConflict, Get(album.ID) returns the
\* row and the Update with the fetched Version, no other writer in between,
\* succeeds.
C14_ConflictAlwaysRecoverable ==
    [][/\ GetReturns(Retrier) =>
             err'[Retrier] = NoError /\ ~IsNil(album'[Retrier])
       /\ Returns(Retrier, "Update") => err'[Retrier] = NoError]_vars

\* C14 (amended): after Update returned ErrEditConflict, Get(album.ID)
\* returns the row if a row with that id is still stored, and then the
\* Update with the fetched Album, no other writer in between, returns nil,
\* stores the Album's fields and advances the version by one; if no row with
\* that id is stored (deleted, or never inserted) Get returns
\* ErrRecordNotFound and there is nothing to retry with.
C14_ConflictRecoverableWhileStored ==
    [][/\ GetReturns(Retrier) =>
             IF args'[Retrier][1] \in DOMAIN db
               THEN /\ err'[Retrier] = NoError
                    /\ album'[Retrier] =
                          Ptr(RowAlbum(args'[Retrier][1], db[args'[Retrier][1]]))
               ELSE /\ err'[Retrier] = ErrRecordNotFound
                    /\ IsNil(album'[Retrier])
       /\ Returns(Retrier, "Update") =>
             LET a == album'[Retrier][1]
             IN /\ err'[Retrier] = NoError
                /\ a.ID \in DOMAIN db /\ a.ID \in DOMAIN db'
                /\ db'[a.ID].version = db[a.ID].version + 1
                /\ a.Version = db'[a.ID].version
                /\ RowAlbum(a.ID, db'[a.ID]) = a]_vars

C14_Witness ==
    /\ pc[Retrier] = "idle" /\ op[Retrier] = "Update" /\ err[Retrier] = NoError
    /\ 1 \in DOMAIN db
    /\ album[Retrier] = Ptr(RowAlbum(1, db[1]))
    /\ db[1].version = MaxVersion
    /\ pc[Reader] = "inflight" /\ op[Reader] = "Get"

\* -------------------------------------------------------------- validation
\* The validator package (Validator.Check, AddError, Valid, Unique) is
\* called by ValidateAlbum; Errors maps a field to the first message
\* recorded for it.
AddError(v, key, message) ==
    IF key \in DOMAIN v THEN v ELSE (key :> message) @@ v
Check(v, ok, key, message) ==
    IF ok THEN v ELSE AddError(v, key, message)
Valid(v)  == DOMAIN v = {}
Unique(values) == Cardinality({values[k] : k \in DOMAIN values}) = Len(values)

\* time.Now().Year() when ValidateAlbum runs.
CurrentYear == 2026

\* Mutant: the year check as its message words it ("must be greater than").
ValidateAlbumStrictYear(v, a) ==
    LET v1  == Check(v,   a.Title # "", "title", "must be provided")
        v2  == Check(v1,  Len(a.Title) <= 500, "title",
                          "must not be more than 500 bytes long")
        v3  == Check(v2,  a.Year # 0, "year", "must be provided")
        v4  == Check(v3,  a.Year > 1888, "year", "must be greater than 1888")
        v5  == Check(v4,  a.Year <= CurrentYear, "year", "must not be in the future")
        v6  == Check(v5,  a.Runtime # 0, "runtime", "must be provided")
        v7  == Check(v6,  a.Runtime > 0, "runtime", "must be a positive integer")
        v8  == Check(v7,  a.Genres # << >>, "genres", "must be provided")
        v9  == Check(v8,  Len(a.Genres) >= 1, "genres", "must contain at least 1 genre")
        v10 == Check(v9,  Len(a.Genres) <= 5, "genres",
                          "must not contain more than 5 genres")
    IN Check(v10, Unique(a.Genres), "genres", "must not contain duplicate values")

\* func ValidateAlbum: the eleven checks in order.  (A nil Genres and an
\* empty one are both the empty sequence here: both fail the "genres" key.)
ValidateAlbum(v, a) ==
    LET v1  == Check(v,   a.Title # "", "title", "must be provided")
        v2  == Check(v1,  Len(a.Title) <= 500, "title",
                          "must not be more than 500 bytes long")
        v3  == Check(v2,  a.Year # 0, "year", "must be provided")
        v4  == Check(v3,  a.Year >= 1888, "year", "must be greater than 1888")
        v5  == Check(v4,  a.Year <= CurrentYear, "year", "must not be in the future")
        v6  == Check(v5,  a.Runtime # 0, "runtime", "must be provided")
        v7  == Check(v6,  a.Runtime > 0, "runtime", "must be a positive integer")
        v8  == Check(v7,  a.Genres # << >>, "genres", "must be provided")
        v9  == Check(v8,  Len(a.Genres) >= 1, "genres", "must contain at least 1 genre")
        v10 == Check(v9,  Len(a.Genres) <= 5, "genres",
                          "must not contain more than 5 genres")
    IN Check(v10, Unique(a.Genres), "genres", "must not contain duplicate values")

\* A title of n bytes.
RECURSIVE Bytes(_)
Bytes(n) ==
    IF n = 0 THEN ""
    ELSE IF n % 2 = 0 THEN LET h == Bytes(n \div 2) IN h \o h
    ELSE "a" \o Bytes(n - 1)

\* The Albums passed to ValidateAlbum: every combination of these field
\* values, on both sides of each limit.
TitleValues   == {"", "a", Bytes(500), Bytes(501)}
YearValues    == {0, 1887, 1888, CurrentYear, CurrentYear + 1}
RuntimeValues == {-1, 0, 40}
GenresValues  ==
    { << >>, <<"rock">>, <<"rock", "rock">>, <<"rock", "jazz", "rock">>,
      <<"rock", "jazz", "folk", "soul", "funk">>,
      <<"rock", "jazz", "folk", "soul", "funk", "punk">> }
ValidateInputs ==
    { [ZeroAlbum EXCEPT !.Title = t, !.Year = y, !.Runtime = r, !.Genres = g] :
        t \in TitleValues, y \in YearValues, r \in RuntimeValues, g \in GenresValues }

\* One caller holds an Album to validate; it validates it with a new
\* validator.
InitValidate ==
    \E p \in Callers, a \in ValidateInputs :
        /\ db = << >>
        /\ nextId = 1
        /\ now = 1
        /\ pc = [q \in Callers |-> "idle"]
        /\ op = [q \in Callers |-> "none"]
        /\ args = [q \in Callers |-> << >>]
        /\ filters = [q \in Callers |-> ZeroFilters]
        /\ album = [q \in Callers |-> IF q = p THEN Ptr(a) ELSE Nil]
        /\ albums = [q \in Callers |-> Nil]
        /\ metadata = [q \in Callers |-> ZeroMetadata]
        /\ err = [q \in Callers |-> NoError]
        /\ errors = [q \in Callers |-> << >>]
        /\ updates = << >>

ValidateCall(p) ==
    /\ Idle(p) /\ op[p] = "none" /\ ~IsNil(album[p])
    /\ op' = [op EXCEPT ![p] = "ValidateAlbum"]
    /\ errors' = [errors EXCEPT ![p] = ValidateAlbum(<< >>, album[p][1])]
    /\ UNCHANGED <<db, nextId, now, pc, args, filters, album, albums, metadata,
                   err, updates>>

NextValidate == \E p \in Callers : ValidateCall(p)

SpecValidate == InitValidate /\ [][NextValidate]_vars

\* C15: ValidateAlbum leaves the validator without errors exactly when the
\* title is non-empty and at most 500 bytes, the year is from 1888 up to the
\* current year, the runtime is positive, and there are 1 to 5 genres, no
\* two of them equal.
C15_ValidExactlyWhenWithinLimits ==
    \A p \in Callers :
        op[p] = "ValidateAlbum" =>
            LET a == album[p][1]
            IN Valid(errors[p]) <=>
                  /\ Len(a.Title) \in 1..500
                  /\ a.Year \in 1888..CurrentYear
                  /\ a.Runtime > 0
                  /\ Len(a.Genres) \in 1..5
                  /\ \A i, j \in DOMAIN a.Genres : i # j => a.Genres[i] # a.Genres[j]

C15_Witness ==
    \E p \in Callers :
        /\ op[p] = "ValidateAlbum" /\ Valid(errors[p])
        /\ Len(album[p][1].Title) = 500 /\ album[p][1].Year = 1888
        /\ album[p][1].Runtime = 40 /\ Len(album[p][1].Genres) = 5

\* C16: a Get or GetAll running concurrently with Updates never observes a
\* partial state: every row of the table got its title, year, runtime,
\* genres and version together from one committed Insert or Update, and
\* every Album a Get or GetAll returns is one such row, whole, as stored
\* when the statement ran.
C16_NoPartialState ==
    [][/\ \A i \in DOMAIN db' :
            (i \notin DOMAIN db \/ db'[i] # db[i]) =>
               \E p \in Callers :
                  /\ Returns(p, "Insert") \/ Returns(p, "Update")
                  /\ <<db'[i].title, db'[i].year, db'[i].runtime, db'[i].genres>>
                        = <<args[p][1], args[p][2], args[p][3], args[p][4]>>
                  /\ db'[i].version =
                        IF Returns(p, "Insert") THEN InitialVersion
                                                ELSE db[i].version + 1
       /\ \A p \in Callers :
            (Returns(p, "Get") /\ ~IsNil(album'[p])) =>
               /\ args[p][1] \in DOMAIN db
               /\ album'[p] = Ptr(RowAlbum(args[p][1], db[args[p][1]]))
       /\ \A p \in Callers :
            (Returns(p, "GetAll") /\ ~IsNil(albums'[p])) =>
               \A k \in DOMAIN albums'[p][1] :
                  \E j \in DOMAIN db : albums'[p][1][k] = RowAlbum(j, db[j])]_vars

\* A Get returned the row as the second Update left it while another
\* caller's Update of the same row is in flight.
C16_Witness ==
    \E p \in Callers : \E q \in Callers \ {p} :
        /\ pc[p] = "idle" /\ op[p] = "Get" /\ err[p] = NoError
        /\ 1 \in DOMAIN db /\ db[1].version = 3
        /\ album[p] = Ptr(RowAlbum(1, db[1]))
        /\ pc[q] = "inflight" /\ op[q] = "Update" /\ args[q][5] = 1
        /\ args[q][1] # db[1].title

\* C17: with no write between the calls, the pages 1..LastPage of GetAll for
\* fixed filters, sort and page size are pairwise disjoint and together are
\* exactly the matching rows in sort order, ties broken by ascending id: the
\* call for page P returns a list; the row at place k of it is the one that
\* exactly (P-1)*PageSize + k - 1 matching rows precede (by the sort key in
\* the sort direction, then by id), and every matching row with at most
\* PageSize - 1 more predecessors than (P-1)*PageSize is on the page.
C17_PagesPartitionTheMatches ==
    [][\A p \in Callers :
         Returns(p, "GetAll") =>
            LET f == filters[p]
                m == ListMatch(db, args[p])
                skip == (f.Page - 1) * f.PageSize
                preceding(j) ==
                    Cardinality({i \in m : Before(db, i, j, sortColumn(f),
                                                  sortDirection(f))})
            IN /\ err'[p] = NoError
               /\ ~IsNil(albums'[p])
               /\ \A k \in DOMAIN albums'[p][1] :
                    LET a == albums'[p][1][k]
                    IN /\ a.ID \in m
                       /\ a = RowAlbum(a.ID, db[a.ID])
                       /\ preceding(a.ID) = skip + k - 1
               /\ \A j \in m :
                    (preceding(j) >= skip /\ preceding(j) < skip + f.PageSize) =>
                       \E k \in DOMAIN albums'[p][1] : albums'[p][1][k].ID = j]_vars

\* ----------------------------------------------------------- two rows
\* Two Inserts have stored rows 1 and 2; the callers then Get, Update and
\* Delete either row, in any interleaving.
StoredIds == {1, 2}

InitTwoRows ==
    \E c \in Contents, d \in Contents :
        /\ db = [i \in StoredIds |->
                   LET e == IF i = 1 THEN c ELSE d
                   IN [created_at |-> i, title |-> e.Title, year |-> e.Year,
                       runtime |-> e.Runtime, genres |-> e.Genres,
                       version |-> InitialVersion]]
        /\ updates = [i \in StoredIds |-> 0]
        /\ nextId = 3
        /\ now = 3
        /\ pc = [p \in Callers |-> "idle"]
        /\ op = [p \in Callers |-> "none"]
        /\ args = [p \in Callers |-> << >>]
        /\ filters = [p \in Callers |-> ZeroFilters]
        /\ album = [p \in Callers |-> Nil]
        /\ albums = [p \in Callers |-> Nil]
        /\ metadata = [p \in Callers |-> ZeroMetadata]
        /\ err = [p \in Callers |-> NoError]
        /\ errors = [p \in Callers |-> << >>]

NextTwoRows ==
    \/ \E p \in Callers, i \in StoredIds : GetCall(p, i)
    \/ \E p \in Callers, o \in Reliable : GetQuery(p, o)
    \/ \E p \in Callers : \E a \in UpdateInputs(p) : UpdateCall(p, a)
    \/ \E p \in Callers, o \in Reliable : UpdateQuery(p, o)
    \/ \E p \in Callers, i \in StoredIds : DeleteCall(p, i)
    \/ \E p \in Callers, o \in Reliable : DeleteExec(p, o)

SpecTwoRows == InitTwoRows /\ [][NextTwoRows]_vars

\* The id an Update or Delete of caller p is about.
TargetId(p) == IF op[p] = "Update" THEN args[p][5] ELSE args[p][1]

\* C18: from its Insert until its Delete a row keeps its id and created_at
\* (here: the row created at time i stays stored under id i, goes away only
\* by a Delete of id i, and Get returns it with that ID and CreatedAt); an
\* Update or Delete on one id leaves every row with another id unchanged.
C18_IdentityAndFrame ==
    [][/\ \A i \in DOMAIN db' : i \in DOMAIN db /\ db'[i].created_at = i
       /\ \A i \in DOMAIN db \ DOMAIN db' :
            \E p \in Callers : Returns(p, "Delete") /\ args[p][1] = i
       /\ \A p \in Callers :
            (Returns(p, "Get") /\ ~IsNil(album'[p])) =>
               /\ album'[p][1].ID = args[p][1]
               /\ album'[p][1].CreatedAt = db[args[p][1]].created_at
       /\ \A p \in Callers :
            (Returns(p, "Update") \/ Returns(p, "Delete")) =>
               \A j \in DOMAIN db \ {TargetId(p)} :
                  j \in DOMAIN db' /\ db'[j] = db[j]]_vars

\* Row 2 was updated and row 1 deleted; row 2 is stored as its Update left it.
C18_Witness ==
    \E p \in Callers : \E q \in Callers \ {p} :
        /\ pc[p] = "idle" /\ op[p] = "Update" /\ err[p] = NoError
        /\ album[p][1].ID = 2
        /\ pc[q] = "idle" /\ op[q] = "Delete" /\ err[q] = NoError /\ args[q] = <<1>>
        /\ DOMAIN db = {2}
        /\ album[p] = Ptr(RowAlbum(2, db[2]))
        /\ db[2].version = 2 /\ db[2].created_at = 2

\* C19: the stored version of a row is at least 1, never decreases, and is 1
\* plus the number of Updates on its id that the store committed (whether
\* the call returned nil or timed out after the commit); a successful Update
\* returns the version it stored, one above the version stored before, so no
\* two successful Updates of a row return the same version.
C19_VersionCountsUpdates ==
    [][/\ \A i \in DOMAIN db' :
            /\ db'[i].version >= 1
            /\ db'[i].version = 1 + updates'[i]
            /\ i \in DOMAIN db => db'[i].version >= db[i].version
       /\ \A p \in Callers :
            (Returns(p, "Update") /\ err'[p] = NoError) =>
               LET a == album'[p][1]
               IN /\ a.ID \in DOMAIN db /\ a.ID \in DOMAIN db'
                  /\ a.Version = db'[a.ID].version
                  /\ a.Version = db[a.ID].version + 1
                  /\ \A q \in Callers \ {p} :
                       (pc[q] = "idle" /\ op[q] = "Update" /\ err[q] = NoError
                           /\ album[q][1].ID = a.ID)
                         => album[q][1].Version < a.Version]_vars

\* Row 1 is at version 3 after two committed Updates: one returned nil and
\* version 2, the other committed but timed out (its Album still at 2).
C19_Witness ==
    \E p \in Callers : \E q \in Callers \ {p} :
        /\ 1 \in DOMAIN db /\ db[1].version = 3 /\ updates[1] = 2
        /\ pc[q] = "idle" /\ op[q] = "Update" /\ err[q] = NoError
        /\ album[q][1].ID = 1 /\ album[q][1].Version = 2
        /\ pc[p] = "idle" /\ op[p] = "Update" /\ err[p] = ErrTimeout
        /\ album[p][1].ID = 1 /\ album[p][1].Version = 2

\* C20: when Update returns a timeout or another storage error, album.Version
\* is left at the value passed in, also when the store committed the write;
\* and if it committed, a retry of Update with that same Album matches no
\* row: it returns ErrEditConflict and leaves the table as it is.
C20_FailedUpdateKeepsVersion ==
    [][\A p \in Callers :
         (Returns(p, "Update") /\ err'[p] \notin {NoError, ErrEditConflict}) =>
            /\ album'[p] = album[p]
            /\ album'[p][1].Version = args[p][6]
            /\ db' # db =>
                 LET a == album'[p][1]
                     retry == <<a.Title, a.Year, a.Runtime, a.Genres, a.ID, a.Version>>
                 IN /\ db'[a.ID].version = a.Version + 1
                    /\ UpdateMatch(db', retry) = {}
                    /\ UpdateResult(UpdateScan(db', retry, a.Version).err)
                          = ErrEditConflict
                    /\ UpdateTable(db', retry) = db']_vars

\* An Update of row 1 was committed by the store and timed out: the row
\* holds the Album's fields at the next version, the Album the old version.
C20_Witness ==
    \E p \in Callers :
        /\ pc[p] = "idle" /\ op[p] = "Update" /\ err[p] = ErrTimeout
        /\ 1 \in DOMAIN db /\ album[p][1].ID = 1
        /\ db[1].version = album[p][1].Version + 1
        /\ db[1].title = album[p][1].Title /\ db[1].genres = album[p][1].Genres
        /\ updates[1] = 1
        /\ \A q \in Callers \ {p} : op[q] = "none"

=============================================================================
